---------------------------- MODULE Spec2Model ----------------------------
(*
  Model of the Conan recipe of Apache Celix (src/conanfile.py, class
  CelixConan): the option resolution done by configure(), the checks of
  validate() and the option removal of package_id().

  An option mapping is a function from option names to values: booleans for
  the feature flags, a sequence of one-character strings for
  celix_err_buffer_size.  An option the user did not supply is absent from
  the domain of self.options (get_safe(opt).value is None).
*)
EXTENDS Integers, Sequences, FiniteSets, TLC

(* ------------------------------ bounds -------------------------------- *)

\* Number of options a user supplies on top of the recipe's defaults.
MaxOverrides == 2

\* Number of times configure() is run on the same recipe object.
MaxConfigureRuns == 2

(* --------------------------- the flag registry ------------------------ *)

\* Keys of _celix_defaults for which opt.startswith('build_') holds.
BuildFlags ==
    { "build_all", "build_deployment_admin", "build_http_admin",
      "build_log_service", "build_log_helper", "build_log_service_api",
      "build_syslog_writer", "build_pubsub", "build_pubsub_wire_protocol_v1",
      "build_pubsub_wire_protocol_v2", "build_pubsub_json_serializer",
      "build_pubsub_avrobin_serializer", "build_pubsub_psa_zmq",
      "build_pubsub_examples", "build_pubsub_integration",
      "build_pubsub_psa_tcp", "build_pubsub_psa_udp_mc", "build_pubsub_psa_ws",
      "build_pubsub_discovery_etcd", "build_cxx_remote_service_admin",
      "build_cxx_rsa_integration", "build_remote_service_admin",
      "build_rsa_remote_service_admin_dfi", "build_rsa_discovery_common",
      "build_rsa_discovery_configured", "build_rsa_discovery_etcd",
      "build_rsa_remote_service_admin_shm_v2", "build_rsa_json_rpc",
      "build_rsa_discovery_zeroconf", "build_shell", "build_shell_api",
      "build_remote_shell", "build_shell_bonjour", "build_shell_tui",
      "build_shell_wui", "build_components_ready_check", "build_examples",
      "build_celix_etcdlib", "build_launcher", "build_promises",
      "build_pushstreams", "build_experimental", "build_celix_dfi",
      "build_dependency_manager", "build_dependency_manager_cxx",
      "build_framework", "build_rcm", "build_utils" }

\* The other keys of _celix_defaults.
OtherFlags ==
    { "enable_testing", "enable_code_coverage", "enable_address_sanitizer",
      "enable_undefined_sanitizer", "enable_thread_sanitizer",
      "enable_testing_dependency_manager_for_cxx11", "enable_testing_for_cxx14",
      "celix_cxx14", "celix_cxx17", "celix_install_deprecated_api",
      "celix_use_compression_for_bundle_zips", "enable_cmake_warning_tests",
      "enable_testing_on_ci", "framework_curlinit", "enable_ccache" }

\* _celix_defaults.keys()
Flags == BuildFlags \cup OtherFlags

\* opt.startswith('build_') on the keys of _celix_defaults
StartsWithBuild(opt) == opt \in BuildFlags

\* The keys of _celix_defaults whose default is True.
DefaultTrue ==
    { "celix_cxx14", "celix_cxx17", "celix_use_compression_for_bundle_zips",
      "framework_curlinit" }

celix_defaults == [opt \in Flags |-> opt \in DefaultTrue]

\* default_options: celix_err_buffer_size is "512"
default_options == [opt \in {"celix_err_buffer_size"} |-> <<"5", "1", "2">>]

\* Every option of the recipe: options = {"celix_err_buffer_size": ...} plus
\* one [True, False] option per key of _celix_defaults.
AllOptions == Flags \cup {"celix_err_buffer_size"}

\* settings.os; validate() supports the first two only.
OperatingSystems == {"Linux", "Macos", "Windows"}

\* Texts a user passes as celix_err_buffer_size (the option accepts "ANY").
ErrBufferInputs ==
    { <<"5", "1", "2">>, <<"-", "1">>, <<"0">>, <<"1">>, <<"a", "b", "c">>,
      <<>>, <<"+", "7">>, <<" ", "8", " ">>, <<"1", "_", "0">>, <<"1", ".", "5">> }

\* Values a user may give an option.
OptionValues(opt) ==
    IF opt = "celix_err_buffer_size" THEN ErrBufferInputs ELSE BOOLEAN

(* ------------------------------ configure ----------------------------- *)

\* options[opt] = True for every opt of a set: the assigned keys take the new
\* value, the others keep theirs.
SetTrue(o, S) == [k \in S |-> TRUE] @@ o

\* options[opt] = False for every opt of a set
SetFalse(o, S) == [k \in S |-> FALSE] @@ o

\* "copy options to options, fill in defaults if not set": the local dict
\* holds one value per key of _celix_defaults.
FillDefaults(self_options) ==
    [opt \in Flags \cap DOMAIN self_options |-> self_options[opt]]
        @@ celix_defaults

\* BuildAll that leaves the Linux-only options as they are.
BuildAllButLinuxOnly(o) ==
    IF o["build_all"]
    THEN SetTrue(o, {opt \in DOMAIN o : StartsWithBuild(opt)}
                        \ { "build_rsa_remote_service_admin_shm_v2",
                            "build_rsa_discovery_zeroconf",
                            "build_shell_bonjour" })
    ELSE o

\* if options["build_all"]: every opt that starts with 'build_' becomes True
BuildAll(o) ==
    IF o["build_all"]
    THEN SetTrue(o, {opt \in DOMAIN o : StartsWithBuild(opt)})
    ELSE o

\* The options configure() and validate() tie to Linux.
LinuxOnly ==
    { "build_rsa_remote_service_admin_shm_v2", "build_rsa_discovery_zeroconf",
      "build_shell_bonjour" }

\* PlatformConstraints with the comparison of settings.os inverted.
PlatformConstraintsOnLinux(o, os) ==
    IF os = "Linux"
    THEN SetFalse(o, { "build_rsa_remote_service_admin_shm_v2",
                       "build_rsa_discovery_zeroconf", "build_shell_bonjour" })
    ELSE o

\* if self.settings.os != "Linux": the three options become False
PlatformConstraints(o, os) ==
    IF os # "Linux" THEN SetFalse(o, LinuxOnly) ELSE o

\* A rule "if options[a] or options[b] ...: options[t] = True ...".  `any`
\* are the alternatives of the condition, `all` the conditions of the
\* enclosing if statements (the rule of line 313 is nested in that of line
\* 311), `set` the options assigned True.
Rule(any, all, set) == [any |-> any, all |-> all, set |-> set]

\* The if statements of configure() after the platform block, in source order.
Rules ==
    << Rule({"enable_code_coverage"}, {}, {"enable_testing"}),
       Rule({"build_examples"}, {},
            {"build_shell_tui", "build_shell_wui", "build_log_service",
             "build_syslog_writer"}),
       Rule({"build_shell_bonjour"}, {}, {"build_shell"}),
       Rule({"build_deployment_admin"}, {}, {"build_framework"}),
       Rule({"build_cxx_rsa_integration"}, {},
            {"build_cxx_remote_service_admin", "build_pushstreams",
             "build_promises", "build_log_helper", "build_shell",
             "build_shell_tui", "build_shell_api", "build_pubsub",
             "build_pubsub_wire_protocol_v2", "build_pubsub_json_serializer",
             "build_pubsub_psa_zmq", "build_pubsub_discovery_etcd"}),
       Rule({"build_pubsub_integration"}, {},
            {"build_pubsub", "build_shell_tui", "build_pubsub_json_serializer",
             "build_pubsub_wire_protocol_v2", "build_pubsub_wire_protocol_v1",
             "enable_testing"}),
       Rule({"build_pubsub_examples"}, {},
            {"build_log_service", "build_shell_tui",
             "build_pubsub_json_serializer", "build_pubsub_discovery_etcd",
             "build_pubsub_wire_protocol_v2", "build_pubsub_wire_protocol_v1"}),
       Rule({"build_pubsub_discovery_etcd"}, {},
            {"build_pubsub", "build_celix_etcdlib"}),
       Rule({"build_pubsub_psa_ws"}, {}, {"build_http_admin", "build_pubsub"}),
       Rule({"build_pubsub_psa_zmq", "build_pubsub_psa_tcp",
             "build_pubsub_psa_udp_mc"}, {}, {"build_pubsub"}),
       Rule({"build_pubsub_wire_protocol_v1"}, {}, {"build_pubsub"}),
       Rule({"build_pubsub_wire_protocol_v2"}, {}, {"build_pubsub"}),
       Rule({"build_pubsub_json_serializer", "build_pubsub_avrobin_serializer"},
            {}, {"build_pubsub"}),
       Rule({"build_pubsub"}, {},
            {"build_framework", "build_celix_dfi", "build_shell_api",
             "build_log_helper", "celix_install_deprecated_api"}),
       Rule({"build_cxx_remote_service_admin"}, {},
            {"build_framework", "build_log_helper", "celix_cxx17"}),
       Rule({"build_rsa_discovery_etcd"}, {},
            {"build_celix_etcdlib", "build_rsa_discovery_common"}),
       Rule({"build_rsa_discovery_configured"}, {},
            {"build_rsa_discovery_common"}),
       Rule({"build_rsa_discovery_common", "build_rsa_discovery_zeroconf",
             "build_rsa_remote_service_admin_dfi", "build_rsa_json_rpc",
             "build_rsa_remote_service_admin_shm_v2"}, {},
            {"build_remote_service_admin"}),
       Rule({"build_remote_service_admin"}, {},
            {"build_framework", "build_log_helper", "build_celix_dfi",
             "celix_install_deprecated_api"}),
       Rule({"build_remote_shell"}, {}, {"build_shell"}),
       Rule({"build_shell_wui"}, {}, {"build_shell", "build_http_admin"}),
       Rule({"build_shell_tui"}, {}, {"build_shell"}),
       Rule({"build_shell"}, {},
            {"build_shell_api", "build_log_helper", "build_framework"}),
       Rule({"build_http_admin"}, {}, {"build_framework"}),
       Rule({"build_syslog_writer"}, {}, {"build_log_service"}),
       Rule({"build_log_service"}, {},
            {"build_log_service_api", "build_shell_api", "build_framework",
             "build_log_helper"}),
       Rule({"build_shell_api"}, {}, {"build_utils"}),
       Rule({"build_log_helper"}, {},
            {"build_log_service_api", "build_framework"}),
       Rule({"build_log_service_api"}, {}, {"build_utils"}),
       Rule({"celix_install_deprecated_api"}, {"build_log_service_api"},
            {"build_framework"}),
       Rule({"build_components_ready_check"}, {}, {"build_framework"}),
       Rule({"build_rcm"}, {}, {"build_utils"}),
       Rule({"build_launcher", "build_dependency_manager"}, {},
            {"build_framework"}),
       Rule({"build_dependency_manager_cxx"}, {},
            {"build_framework", "celix_cxx14"}),
       Rule({"build_celix_dfi"}, {}, {"build_utils"}),
       Rule({"build_framework"}, {}, {"build_utils"}),
       Rule({"build_pushstreams"}, {}, {"build_promises"}),
       Rule({"build_promises"}, {}, {"celix_cxx17"}),
       Rule({"celix_cxx17"}, {}, {"celix_cxx14"}) >>

\* The condition of a rule's if statement(s) on a mapping.
Holds(r, o) == (\E a \in r.any : o[a]) /\ (\A a \in r.all : o[a])

\* One if statement: its assignments run when its condition holds.
ApplyRule(r, o) == IF Holds(r, o) THEN SetTrue(o, r.set) ELSE o

\* The if statements of a list one after the other, each on the mapping the
\* earlier ones left: the first half of the list, then the second half on
\* the result of the first.  (The test on DOMAIN o makes TLC evaluate the
\* mapping before it descends; no mapping of the recipe is empty.)
RECURSIVE ApplyRulesIn(_, _)
ApplyRulesIn(rules, o) ==
    IF DOMAIN o = {} \/ Len(rules) = 0 THEN o
    ELSE IF Len(rules) = 1 THEN ApplyRule(rules[1], o)
    ELSE LET half == Len(rules) \div 2
         IN  ApplyRulesIn(SubSeq(rules, half + 1, Len(rules)),
                          ApplyRulesIn(SubSeq(rules, 1, half), o))

\* ApplyRules without the last if statement.
ApplyRulesButLast(o) == ApplyRulesIn(SubSeq(Rules, 1, Len(Rules) - 1), o)

\* ApplyRules with the if statements in the opposite order.
ApplyRulesReversed(o) ==
    ApplyRulesIn([i \in 1..Len(Rules) |-> Rules[Len(Rules) + 1 - i]], o)

\* The single pass over the if statements, in source order.
ApplyRules(o) == ApplyRulesIn(Rules, o)

\* The mappings the if statements of a list leave one after the other, the
\* first on o, each later one on the mapping its predecessor left.
RECURSIVE RuleTrace(_, _)
RuleTrace(rules, o) ==
    IF DOMAIN o = {} \/ Len(rules) = 0 THEN << >>
    ELSE IF Len(rules) = 1 THEN << ApplyRule(rules[1], o) >>
    ELSE LET half  == Len(rules) \div 2
             first == RuleTrace(SubSeq(rules, 1, half), o)
         IN  first \o RuleTrace(SubSeq(rules, half + 1, Len(rules)),
                                first[Len(first)])

\* The values the local dict `options` takes during configure(): after the
\* defaults are filled in, after the build_all block, after the platform
\* block, and after each if statement in turn.
ConfigureSteps(self_options, os) ==
    LET filled   == FillDefaults(self_options)
        enabled  == BuildAll(filled)
        platform == PlatformConstraints(enabled, os)
    IN  << filled, enabled, platform >> \o RuleTrace(Rules, platform)

\* ResolveFlags with the platform block moved behind the if statements.
ResolveFlagsPlatformLast(self_options, os) ==
    PlatformConstraints(ApplyRules(BuildAll(FillDefaults(self_options))), os)

\* ResolveFlags with the platform block moved before the build_all block.
ResolveFlagsPlatformFirst(self_options, os) ==
    ApplyRules(BuildAll(PlatformConstraints(FillDefaults(self_options), os)))

\* The local dict `options` at the end of configure().
ResolveFlags(self_options, os) ==
    ApplyRules(PlatformConstraints(BuildAll(FillDefaults(self_options)), os))

\* for opt in _celix_defaults.keys(): setattr(self.options, opt, options[opt])
\* The options that are no key of _celix_defaults keep their value.
WriteBack(self_options, o) == o @@ self_options

\* self.options after configure(), from self.options before it.
ConfigureOptions(self_options, os) ==
    WriteBack(self_options, ResolveFlags(self_options, os))

(* ------------------------------ validate ------------------------------ *)

Digits == <<"0", "1", "2", "3", "4", "5", "6", "7", "8", "9">>

IsDigit(c) == \E i \in 1..Len(Digits) : Digits[i] = c

DigitValue(c) == (CHOOSE i \in 1..Len(Digits) : Digits[i] = c) - 1

\* Characters int() strips from both ends of its argument.
Whitespace == {" ", "\t", "\n"}

RECURSIVE StripLeft(_)
StripLeft(s) ==
    IF s # <<>> /\ Head(s) \in Whitespace THEN StripLeft(Tail(s)) ELSE s

RECURSIVE StripRight(_)
StripRight(s) ==
    IF s # <<>> /\ s[Len(s)] \in Whitespace
    THEN StripRight(SubSeq(s, 1, Len(s) - 1))
    ELSE s

RECURSIVE DecimalValue(_)
DecimalValue(s) ==
    IF s = <<>> THEN 0
    ELSE 10 * DecimalValue(SubSeq(s, 1, Len(s) - 1)) + DigitValue(s[Len(s)])

\* int(text): optional surrounding whitespace, an optional sign, then digits
\* which single underscores may separate.  ok is FALSE where int() raises
\* ValueError.
ParseInt(text) ==
    LET t      == StripRight(StripLeft(text))
        signed == t # <<>> /\ t[1] \in {"+", "-"}
        body   == IF signed THEN Tail(t) ELSE t
        wellformed ==
            /\ body # <<>>
            /\ IsDigit(body[1]) /\ IsDigit(body[Len(body)])
            /\ \A i \in 1..Len(body) : IsDigit(body[i]) \/ body[i] = "_"
            /\ \A i \in 1..(Len(body) - 1) : ~(body[i] = "_" /\ body[i + 1] = "_")
        magnitude == DecimalValue(SelectSeq(body, IsDigit))
    IN  IF wellformed
        THEN [ok |-> TRUE,
              val |-> IF t[1] = "-" THEN 0 - magnitude ELSE magnitude]
        ELSE [ok |-> FALSE, val |-> 0]

\* ErrBufferSizeRaises with val < 0 for val <= 0.
ErrBufferSizeRaisesBelowZero(text) ==
    LET parsed == ParseInt(text) IN ~parsed.ok \/ parsed.val < 0

\* The try block of validate(): ValueError from int() or from val <= 0.
ErrBufferSizeRaises(text) ==
    LET parsed == ParseInt(text) IN ~parsed.ok \/ parsed.val <= 0

\* The messages of the ConanInvalidConfiguration validate() raises.
OsNotSupported == "Celix is only supported for Linux/Macos"

ShmV2LinuxOnly ==
    "Celix build_rsa_remote_service_admin_shm_v2 is only supported for Linux"

ZeroconfLinuxOnly ==
    "Celix build_rsa_discovery_zeroconf is only supported for Linux"

BonjourLinuxOnly == "Celix build_shell_bonjour is only supported for Linux"

ErrBufferSizeMessage == "celix_err_buffer_size must be a positive number"

\* ValidateRaises with the try block moved to the top of validate().
ValidateRaisesBufferFirst(o, os) ==
    IF ErrBufferSizeRaises(o["celix_err_buffer_size"])
    THEN {ErrBufferSizeMessage}
    ELSE IF os # "Linux" /\ os # "Macos"
    THEN {OsNotSupported}
    ELSE IF o["build_rsa_remote_service_admin_shm_v2"] /\ os # "Linux"
    THEN {ShmV2LinuxOnly}
    ELSE IF o["build_rsa_discovery_zeroconf"] /\ os # "Linux"
    THEN {ZeroconfLinuxOnly}
    ELSE IF o["build_shell_bonjour"] /\ os # "Linux"
    THEN {BonjourLinuxOnly}
    ELSE {}

\* The messages validate() raises on a configuration: the first raise
\* statement reached ends the call, so at most one.
ValidateRaises(o, os) ==
    IF os # "Linux" /\ os # "Macos"
    THEN {OsNotSupported}
    ELSE IF o["build_rsa_remote_service_admin_shm_v2"] /\ os # "Linux"
    THEN {ShmV2LinuxOnly}
    ELSE IF o["build_rsa_discovery_zeroconf"] /\ os # "Linux"
    THEN {ZeroconfLinuxOnly}
    ELSE IF o["build_shell_bonjour"] /\ os # "Linux"
    THEN {BonjourLinuxOnly}
    ELSE IF ErrBufferSizeRaises(o["celix_err_buffer_size"])
    THEN {ErrBufferSizeMessage}
    ELSE {}

(* ----------------------------- package_id ----------------------------- *)

\* The options package_id() deletes from self.info.options.
IdentityExcluded ==
    { "build_all", "build_pubsub_integration", "build_pubsub_examples",
      "build_cxx_rsa_integration", "build_examples", "build_shell_bonjour",
      "enable_testing_dependency_manager_for_cxx11", "enable_testing_for_cxx14",
      "enable_cmake_warning_tests", "enable_testing_on_ci", "enable_ccache" }

\* PackageIdOptions without "del self.info.options.enable_ccache".
PackageIdOptionsKeepsCcache(o) ==
    [opt \in DOMAIN o \ (IdentityExcluded \ {"enable_ccache"}) |-> o[opt]]

\* self.info.options after package_id(), from self.options.
PackageIdOptions(o) == [opt \in DOMAIN o \ IdentityExcluded |-> o[opt]]

(* --------------------------- the recipe object ------------------------ *)

VARIABLES
    os,         \* self.settings.os
    options,    \* self.options
    explicit,   \* the options the user supplied
    requested,  \* self.options as the latest configure() found them
    runs,       \* calls of configure() so far
    pc,         \* "new", "configured", "validated", "invalid", "packaged"
    raised,     \* the messages validate() raised
    info        \* self.info.options once package_id() ran

vars == <<os, options, explicit, requested, runs, pc, raised, info>>

\* An option mapping with no key.
NoOptions == [opt \in {} |-> TRUE]

\* The recipe as loaded: only celix_err_buffer_size has a default option.
Init ==
    /\ os \in OperatingSystems
    /\ options = default_options
    /\ explicit = {}
    /\ requested = NoOptions
    /\ runs = 0
    /\ pc = "new"
    /\ raised = {}
    /\ info = NoOptions

\* The user gives an option a value (-o celix/*:opt=value).
SetOption(opt, value) ==
    /\ pc = "new"
    /\ opt \notin explicit
    /\ Cardinality(explicit) < MaxOverrides
    /\ options' = (opt :> value) @@ options
    /\ explicit' = explicit \cup {opt}
    /\ UNCHANGED <<os, requested, runs, pc, raised, info>>

\* configure(): on the recipe as loaded, or again on its own result.
configure ==
    /\ pc \in {"new", "configured"}
    /\ runs < MaxConfigureRuns
    /\ requested' = options
    /\ options' = ConfigureOptions(options, os)
    /\ runs' = runs + 1
    /\ pc' = "configured"
    /\ UNCHANGED <<os, explicit, raised, info>>

\* validate() on the configured options: it raises or returns.
validate ==
    /\ pc = "configured"
    /\ raised' = ValidateRaises(options, os)
    /\ pc' = IF raised' = {} THEN "validated" ELSE "invalid"
    /\ UNCHANGED <<os, options, explicit, requested, runs, info>>

\* package_id() on a configuration validate() accepted.
package_id ==
    /\ pc = "validated"
    /\ info' = PackageIdOptions(options)
    /\ pc' = "packaged"
    /\ UNCHANGED <<os, options, explicit, requested, runs, raised>>

Next ==
    \/ \E opt \in AllOptions : \E value \in OptionValues(opt) :
          SetOption(opt, value)
    \/ configure
    \/ validate
    \/ package_id

Spec == Init /\ [][Next]_vars

(* ------------------------------- claims ------------------------------- *)

\* The latest configure() input with the defaults filled in.
Input == FillDefaults(requested)

\* configure() has run; validate() and package_id() leave self.options alone.
Resolved == pc # "new"

\* The messages that report a platform the configuration does not support.
UnsupportedPlatform ==
    {OsNotSupported, ShmV2LinuxOnly, ZeroconfLinuxOnly, BonjourLinuxOnly}

\* The messages that report a value outside an option's constraint.
InvalidValue == {ErrBufferSizeMessage}

\* C1: a Linux-only flag the user enabled on a non-Linux target is not
\* silently disabled: configure() followed by validate() ends in a rejection
\* for the unsupported platform.
C1_ExplicitLinuxOnlyIsRejected ==
    ( /\ pc \in {"validated", "invalid"}
      /\ os # "Linux"
      /\ \E opt \in LinuxOnly \cap explicit : Input[opt] )
    => (pc = "invalid" /\ raised # {} /\ raised \subseteq UnsupportedPlatform)

\* C2: monotonicity.  Whenever the input satisfies the condition of a rule,
\* every target of the rule is true in the resolved configuration, whatever
\* the user gave the target; the one exception is a target the platform block
\* forces to false on this operating system.
C2_Monotonicity ==
    Resolved =>
        \A i \in 1..Len(Rules) :
            Holds(Rules[i], Input) =>
                \A t \in Rules[i].set :
                    options[t] \/ (os # "Linux" /\ t \in LinuxOnly)

\* C3: platform precedence.  On a target other than Linux the three
\* Linux-only flags are false in the resolved configuration, whatever the
\* user set, whether or not build_all is true, whichever rules fired.
C3_PlatformPrecedence ==
    (Resolved /\ os # "Linux") => \A opt \in LinuxOnly : ~options[opt]

\* C3 witness: on Macos the user enabled build_all and a Linux-only flag, and
\* configure() ran.
C3_Witness ==
    /\ pc = "configured"
    /\ os = "Macos"
    /\ explicit = {"build_all", "build_rsa_remote_service_admin_shm_v2"}
    /\ requested["build_all"]
    /\ requested["build_rsa_remote_service_admin_shm_v2"]
    /\ options["build_remote_service_admin"]

\* The mapping the resolution would produce were the platform block applied
\* after the whole cascade.
PlatformAfterCascade ==
    WriteBack(requested,
              PlatformConstraints(ApplyRules(BuildAll(Input)), os))

InputWithoutLinuxOnly == [opt \in LinuxOnly |-> FALSE] @@ requested

C5_Idempotence ==
    [][(pc = "configured" /\ pc' = "configured") => options' = options]_vars

\* C5 witness: configure() ran a second time, on a configuration in which
\* the first run had enabled options the user did not ask for.
C5_Witness ==
    /\ pc = "configured"
    /\ runs > 1
    /\ explicit = {"build_remote_shell", "build_rsa_discovery_zeroconf"}
    /\ requested["build_framework"]
    /\ requested = options

\* The inputs that differ from the latest input only in the options of S.
Variants(S) ==
    { [opt \in T |-> TRUE] @@ [opt \in S |-> FALSE] @@ requested :
        T \in SUBSET S }

\* C6 as stated: two inputs for the same target that differ only in options
\* package_id() removes give the same identity key.
C6_IdentityStability ==
    pc = "packaged" =>
        \A v \in Variants(IdentityExcluded) :
            PackageIdOptions(ConfigureOptions(v, os)) = info

\* The removed options on which configure() decides nothing: no if statement
\* tests them, or the platform block has forced them to false beforehand.
IdentityNeutral ==
    { "enable_testing_dependency_manager_for_cxx11", "enable_testing_for_cxx14",
      "enable_cmake_warning_tests", "enable_testing_on_ci", "enable_ccache" }
        \cup (IF os # "Linux" THEN {"build_shell_bonjour"} ELSE {})

\* C6 as amended: two inputs for the same target that differ only in
\* enable_testing_dependency_manager_for_cxx11, enable_testing_for_cxx14,
\* enable_cmake_warning_tests, enable_testing_on_ci, enable_ccache (and, on a
\* target other than Linux, build_shell_bonjour) give the same identity key.
C6_NeutralIdentityStability ==
    pc = "packaged" =>
        \A v \in Variants(IdentityNeutral) :
            PackageIdOptions(ConfigureOptions(v, os)) = info

\* C6 witness: package_id() ran on a configuration for which the user had
\* set one of these options, so that the variants differ from the input.
C6_Witness ==
    /\ pc = "packaged"
    /\ explicit = {"enable_ccache", "build_pubsub_psa_ws"}
    /\ requested["enable_ccache"]
    /\ requested["build_pubsub_psa_ws"]
    /\ "build_http_admin" \in DOMAIN info
    /\ info["build_http_admin"]

\* The checks of validate() in source order: the condition under which each
\* raises, and its message.
Checks(o, target) ==
    << [fails |-> target # "Linux" /\ target # "Macos", message |-> OsNotSupported],
       [fails |-> o["build_rsa_remote_service_admin_shm_v2"] /\ target # "Linux",
        message |-> ShmV2LinuxOnly],
       [fails |-> o["build_rsa_discovery_zeroconf"] /\ target # "Linux",
        message |-> ZeroconfLinuxOnly],
       [fails |-> o["build_shell_bonjour"] /\ target # "Linux",
        message |-> BonjourLinuxOnly],
       [fails |-> ~ParseInt(o["celix_err_buffer_size"]).ok
                  \/ ParseInt(o["celix_err_buffer_size"]).val <= 0,
        message |-> ErrBufferSizeMessage] >>

\* The checks a configuration violates, by position.
Violated(o, target) ==
    {i \in 1..Len(Checks(o, target)) : Checks(o, target)[i].fails}

\* C7 as stated: validate() evaluates every check and reports all the
\* violated ones together.
C7_AllViolationsReported ==
    pc \in {"validated", "invalid"} =>
        raised = {Checks(options, os)[i].message : i \in Violated(options, os)}

\* C7 as amended: validate() evaluates its checks in source order and stops
\* at the first violated one, so the caller receives exactly that one
\* message, also when the configuration violates several checks; it accepts
\* the configuration when none is violated.
C7_FirstViolationReported ==
    pc \in {"validated", "invalid"} =>
        LET bad == Violated(options, os)
        IN  /\ (bad = {}) = (pc = "validated")
            /\ raised = {Checks(options, os)[i].message :
                            i \in {j \in bad : \A k \in bad : j <= k}}

\* C7 witness: validate() rejected a configuration that violates two checks.
C7_Witness ==
    /\ pc = "invalid"
    /\ Cardinality(Violated(options, os)) > 1

\* C8: on Linux, with build_all true in the input, every option whose name
\* starts with "build_" is true in the resolved configuration, those the user
\* set to false included.
C8_EnableAll ==
    (Resolved /\ os = "Linux" /\ Input["build_all"]) =>
        \A opt \in Flags : StartsWithBuild(opt) => options[opt]

\* C8 witness: on Linux the user set build_all to true and another build_
\* option to false, and configure() ran.
C8_Witness ==
    /\ pc = "configured"
    /\ os = "Linux"
    /\ explicit = {"build_all", "build_rsa_discovery_zeroconf"}
    /\ requested["build_all"]
    /\ ~requested["build_rsa_discovery_zeroconf"]
    /\ options["build_rsa_discovery_zeroconf"]

\* celix_err_buffer_size reads as an integer greater than zero.
IsPositiveInteger(text) == ParseInt(text).ok /\ ParseInt(text).val > 0

\* C9: on Linux validate() rejects the configuration, with the invalid-value
\* message, exactly when celix_err_buffer_size does not read as an integer
\* greater than zero: "-1", "0" and "abc" are rejected, "512" is accepted.
\* configure() never changes celix_err_buffer_size.
C9_NumericValidation ==
    LET size == options["celix_err_buffer_size"]
    IN  /\ Resolved => size = requested["celix_err_buffer_size"]
        /\ (pc \in {"validated", "invalid"} /\ os = "Linux") =>
              /\ (pc = "invalid") = ~IsPositiveInteger(size)
              /\ raised = IF IsPositiveInteger(size) THEN {} ELSE InvalidValue
              /\ size \in {<<"-", "1">>, <<"0">>, <<"a", "b", "c">>}
                    => pc = "invalid"
              /\ size = <<"5", "1", "2">> => pc = "validated"

\* C9 witness: on Linux validate() rejected celix_err_buffer_size "0" for a
\* user who also enabled an option.
C9_Witness ==
    /\ pc = "invalid"
    /\ os = "Linux"
    /\ options["celix_err_buffer_size"] = <<"0">>
    /\ raised = {ErrBufferSizeMessage}
    /\ options["build_framework"]

\* C10: closure of the single pass.  In every resolved configuration each
\* rule whose condition holds has all its targets true; with
\* build_remote_shell true on Linux, build_shell, build_shell_api,
\* build_log_helper, build_framework and build_utils are true.
C10_SinglePassClosure ==
    Resolved =>
        /\ \A i \in 1..Len(Rules) :
              Holds(Rules[i], options) => \A t \in Rules[i].set : options[t]
        /\ (os = "Linux" /\ Input["build_remote_shell"]) =>
              \A t \in {"build_shell", "build_shell_api", "build_log_helper",
                        "build_framework", "build_utils"} : options[t]

\* C10 witness: on Linux the user enabled build_remote_shell alone, and the
\* chain has reached build_utils.
C10_Witness ==
    /\ pc = "configured"
    /\ runs = 1
    /\ os = "Linux"
    /\ explicit = {"build_remote_shell"}
    /\ requested["build_remote_shell"]
    /\ options["build_utils"]

\* The flags the platform block forces to false on this target.
PlatformDisabled == IF os # "Linux" THEN LinuxOnly ELSE {}

\* The flags that are true in a mapping.
Enabled(o) == {opt \in Flags : o[opt]}

\* C11: only the platform block disables.  At every step of configure() a
\* flag that is true in the input is true, the three Linux-only flags on a
\* target other than Linux excepted; from one step to the next no other flag
\* goes from true to false, so none at all on Linux; and every flag but those
\* three that is true in the input is true in the resolved configuration.
C11_OnlyPlatformDisables ==
    Resolved =>
        LET steps == ConfigureSteps(requested, os)
            on    == [k \in 1..Len(steps) |-> Enabled(steps[k])]
        IN  /\ \A k \in 1..Len(on) : (on[1] \ PlatformDisabled) \subseteq on[k]
            /\ \A k \in 1..(Len(on) - 1) :
                  (on[k] \ on[k + 1]) \subseteq PlatformDisabled
            /\ on[Len(on)] = Enabled(options)
            /\ (on[1] \ LinuxOnly) \subseteq Enabled(options)

\* C11 witness: on Macos the user enabled build_shell_bonjour and
\* build_remote_shell; configure() disabled the first, kept the second and
\* enabled what it requires.
C11_Witness ==
    /\ pc = "configured"
    /\ runs = 1
    /\ os = "Macos"
    /\ explicit = {"build_shell_bonjour", "build_remote_shell"}
    /\ requested["build_shell_bonjour"]
    /\ requested["build_remote_shell"]
    /\ ~options["build_shell_bonjour"]
    /\ options["build_remote_shell"]
    /\ options["build_utils"]

=============================================================================
